---- MODULE Spec2Model ----
(***************************************************************************)
(* The PoseAI workout controller of src/body-measurement.js (class PoseAI):*)
(* the camera / pose-detection life cycle, the p5 draw loop that evaluates *)
(* the current pose, the posture evaluator and the push-up rep counter.    *)
(*                                                                         *)
(* Angles are whole degrees.  A pose carries, for each keypoint, its y     *)
(* coordinate and its score (in tenths), and for each limb segment the     *)
(* code measures the value Math.atan2 returns for it, in degrees, in       *)
(* (-180, 180].  x coordinates occur in the code only inside Math.atan2.   *)
(***************************************************************************)
EXTENDS Integers, Sequences, FiniteSets, TLC

\* ------------------------------------------------------------------ bounds
MaxReps == 2
MaxStarts == 2
MaxChains == 2
MaxTimers == 2
MaxRequests == 3
MaxTakes == 12

\* ------------------------------------------------------- program constants
\* Faulty variant: the score tests are written >= 0.3 (tenths: > 2).
ScoreThresholdInclusive == 3 - 1
\* score > 0.3, in tenths
ScoreThreshold == 3
NumKeypoints == 17
NOSE == 0
LEFT_SHOULDER == 5
LEFT_ELBOW == 7
LEFT_WRIST == 9
LEFT_HIP == 11
LEFT_KNEE == 13
RIGHT_SHOULDER == 6
RIGHT_ELBOW == 8
RIGHT_WRIST == 10
\* score > 0.5, in tenths
CalibrationThreshold == 5
CalibrationSamples == 10
SHOULDER_WIDTH_CM == 40
HistoryLimit == 10
InitElbowAngle == 999

\* The keys of exerciseNames in selectExercise.
ExerciseKinds == {"pushups", "squats", "jumping-jacks", "plank"}

\* ------------------------------------------------------------------ poses
\* Score patterns of the 17 keypoints (tenths: 9 is 0.9, 3 is exactly 0.3).
AllHigh == [i \in 0..16 |-> 9]
AllAtThreshold == [i \in 0..16 |-> 3]
WristLow == [AllHigh EXCEPT ![LEFT_WRIST] = 2]
KneeLow == [AllHigh EXCEPT ![LEFT_KNEE] = 3]
AnkleLow == [AllHigh EXCEPT ![16] = 1]

\* A pose whose elbow angle is arm degrees and whose raw back angle is back
\* degrees; the elbow is at y = 0 and the nose at y = noseY.
MkPose(sc, arm, back, noseY) ==
    [keypoints |-> [i \in 0..16 |->
                      [y |-> IF i = NOSE THEN noseY ELSE 0, score |-> sc[i]]],
     atan2 |-> [wristElbow |-> IF arm > 180 THEN 180 ELSE arm,
                shoulderElbow |-> IF arm > 180 THEN 180 - arm ELSE 0,
                kneeHip |-> IF back > 180 THEN 180 ELSE back,
                shoulderHip |-> IF back > 180 THEN 180 - back ELSE 0]]

\* The poses the pose detector may return when every step of the life cycle
\* is explored (Spec).
LifePoses ==
    { MkPose(AllHigh, 90, 10, 1), MkPose(AllHigh, 185, 10, 1),
      MkPose(AllHigh, 185, 90, -1), MkPose(WristLow, 90, 90, 1) }

\* The poses the pose detector may return when the frame stream is explored
\* (SpecFrames): every combination of four arm shapes, two back shapes and the
\* two nose positions, the poses on the edges of the decision windows, poses
\* whose raw angle is negative or beyond 180, and low-confidence poses.
FramePoses ==
    { MkPose(AllHigh, a, b, n) : a \in {185, 90, -90, 130}, b \in {10, 90}, n \in {1, -1} }
    \cup { MkPose(AllHigh, a, 10, 1) : a \in {170, 200, 70, 100} }
    \cup { MkPose(AllHigh, 90, b, 1) : b \in {20, 160, 170, -90, 190} }
    \cup { MkPose(sc, a, 90, 1) : sc \in {AllAtThreshold, WristLow, KneeLow, AnkleLow},
                                  a \in {90, 185} }

\* JavaScript's % operator: the result has the sign of the dividend.
JsRem(a, n) == IF a >= 0 THEN a % n ELSE -((-a) % n)

VARIABLES
    \* PoseAI instance fields
    currentExercise, reps, elbowAngle, backAngle, upPosition, downPosition,
    highlightBack, backWarningGiven, voiceFeedbackEnabled,
    p5Instance, poseDetector, video, cameraStream, workoutTimer, workoutSession,
    \* the p5 sketch's closure variable
    poses,
    \* the event loop: startCamera calls suspended in an await, estimatePoses
    \* calls not yet resolved, detectPose callbacks queued by
    \* requestAnimationFrame, intervals set and not cleared
    awaitingP5, awaitingMedia, pendingEstimates, scheduledFrames, activeIntervals,
    \* what the last step sent to the text and speech sinks
    emitted,
    \* src/server.js: the User and BodyMeasurement collections, the requests
    \* being handled, the last response sent, the number of requests received
    users, measurements, requests, res, received,
    \* class BodyMeasurement: the instance's fields, the two localStorage items
    \* it reads and writes, the status text, the clock behind new Date(), the
    \* estimatePoses calls in flight
    bm, localStorage, statusText, clock, bmPending

workoutVars == <<currentExercise, reps, elbowAngle, backAngle, upPosition, downPosition,
          highlightBack, backWarningGiven, voiceFeedbackEnabled,
          p5Instance, poseDetector, video, cameraStream, workoutTimer, workoutSession,
          poses, awaitingP5, awaitingMedia, pendingEstimates, scheduledFrames,
          activeIntervals, emitted>>

serverVars == <<users, measurements, requests, res, received>>

clientVars == <<bm, localStorage, statusText, clock, bmPending>>

vars == <<workoutVars, serverVars, clientVars>>

\* The fields the pose logic reads and writes, with the output of the step.
This ==
    [reps |-> reps, elbowAngle |-> elbowAngle, backAngle |-> backAngle,
     upPosition |-> upPosition, downPosition |-> downPosition,
     highlightBack |-> highlightBack, backWarningGiven |-> backWarningGiven,
     voiceFeedbackEnabled |-> voiceFeedbackEnabled,
     currentExercise |-> currentExercise, out |-> <<>>]

Event(sink, msg, kind) == [sink |-> sink, msg |-> msg, kind |-> kind]

\* workoutSession is null (exists = FALSE) or a session object.  Of the
\* session's pose log only the newest entry is ever read (getCurrentPose), so
\* the log is kept as its suffix of length at most one.
NoSession == [exists |-> FALSE, poses |-> <<>>]

KeepLast(log) == IF Len(log) > 1 THEN <<log[Len(log)]>> ELSE log

\* ------------------------------------------------------------- pose logic
\* 'speechSynthesis' in window: the browser offers speech synthesis.
speechSynthesisInWindow == TRUE

speak(t, text) ==
    IF speechSynthesisInWindow /\ t.voiceFeedbackEnabled
    THEN [t EXCEPT !.out = Append(@, Event("speech", text, "spoken"))]
    ELSE t

updateFormFeedback(t, message, type) ==
    [t EXCEPT !.out = Append(@, Event("form-feedback", message, type))]

updateAIFeedback(t, message) ==
    [t EXCEPT !.out = Append(@, Event("ai-feedback", message, "info"))]

updateArmAngle(t, pose) ==
    LET leftWrist == pose.keypoints[LEFT_WRIST]
        leftShoulder == pose.keypoints[LEFT_SHOULDER]
        leftElbow == pose.keypoints[LEFT_ELBOW]
        angle == pose.atan2.wristElbow - pose.atan2.shoulderElbow
    IN  IF leftWrist.score > ScoreThreshold /\ leftElbow.score > ScoreThreshold
           /\ leftShoulder.score > ScoreThreshold
        THEN [t EXCEPT !.elbowAngle = angle]
        ELSE t

\* Faulty variant: the spoken warning does not set backWarningGiven.
updateBackAngleNoLatch(t, pose) ==
    LET leftShoulder == pose.keypoints[LEFT_SHOULDER]
        leftHip == pose.keypoints[LEFT_HIP]
        leftKnee == pose.keypoints[LEFT_KNEE]
        angle == pose.atan2.kneeHip - pose.atan2.shoulderHip
        newBackAngle == JsRem(angle, 180)
        t1 == IF leftKnee.score > ScoreThreshold /\ leftHip.score > ScoreThreshold
                 /\ leftShoulder.score > ScoreThreshold
              THEN [t EXCEPT !.backAngle = newBackAngle]
              ELSE t
    IN  IF (t1.backAngle < 20) \/ (t1.backAngle > 160)
        THEN updateFormFeedback([t1 EXCEPT !.highlightBack = FALSE],
                                "Good posture!", "good")
        ELSE LET t2 == updateFormFeedback([t1 EXCEPT !.highlightBack = TRUE],
                                          "Keep your back straight", "warning")
             IN  IF t2.backWarningGiven # TRUE /\ t2.voiceFeedbackEnabled
                 THEN speak(t2, "Keep your back straight")
                 ELSE t2

\* Faulty variant: only the lower bound makes a straight back.
updateBackAngleNoUpper(t, pose) ==
    LET leftShoulder == pose.keypoints[LEFT_SHOULDER]
        leftHip == pose.keypoints[LEFT_HIP]
        leftKnee == pose.keypoints[LEFT_KNEE]
        angle == pose.atan2.kneeHip - pose.atan2.shoulderHip
        newBackAngle == JsRem(angle, 180)
        t1 == IF leftKnee.score > ScoreThreshold /\ leftHip.score > ScoreThreshold
                 /\ leftShoulder.score > ScoreThreshold
              THEN [t EXCEPT !.backAngle = newBackAngle]
              ELSE t
    IN  IF t1.backAngle < 20
        THEN updateFormFeedback([t1 EXCEPT !.highlightBack = FALSE],
                                "Good posture!", "good")
        ELSE LET t2 == updateFormFeedback([t1 EXCEPT !.highlightBack = TRUE],
                                          "Keep your back straight", "warning")
             IN  IF t2.backWarningGiven # TRUE /\ t2.voiceFeedbackEnabled
                 THEN [speak(t2, "Keep your back straight")
                          EXCEPT !.backWarningGiven = TRUE]
                 ELSE t2

updateBackAngle(t, pose) ==
    LET leftShoulder == pose.keypoints[LEFT_SHOULDER]
        leftHip == pose.keypoints[LEFT_HIP]
        leftKnee == pose.keypoints[LEFT_KNEE]
        angle == pose.atan2.kneeHip - pose.atan2.shoulderHip
        newBackAngle == JsRem(angle, 180)
        t1 == IF leftKnee.score > ScoreThreshold /\ leftHip.score > ScoreThreshold
                 /\ leftShoulder.score > ScoreThreshold
              THEN [t EXCEPT !.backAngle = newBackAngle]
              ELSE t
    IN  IF (t1.backAngle < 20) \/ (t1.backAngle > 160)
        THEN updateFormFeedback([t1 EXCEPT !.highlightBack = FALSE],
                                "Good posture!", "good")
        ELSE LET t2 == updateFormFeedback([t1 EXCEPT !.highlightBack = TRUE],
                                          "Keep your back straight", "warning")
             IN  IF t2.backWarningGiven # TRUE /\ t2.voiceFeedbackEnabled
                 THEN [speak(t2, "Keep your back straight")
                          EXCEPT !.backWarningGiven = TRUE]
                 ELSE t2

\* The most recent pose of the workout session's log, as a sequence of at
\* most one pose: <<>> stands for null.
getCurrentPose(session) ==
    IF session.exists /\ Len(session.poses) > 0
    THEN <<session.poses[Len(session.poses)]>>
    ELSE <<>>

Abs(x) == IF x < 0 THEN -x ELSE x

\* Faulty variant: the rep number is handed to the speech synthesis without
\* asking the voice toggle.
countRepAlwaysSpoken(t) ==
    LET r == [t EXCEPT !.reps = @ + 1]
        r1 == [r EXCEPT !.out = Append(@, Event("rep-count", ToString(r.reps), "info"))]
        r2 == [r1 EXCEPT !.out = Append(@, Event("speech", ToString(r1.reps), "spoken"))]
    IN  updateAIFeedback(r2, "Great form! Rep " \o ToString(r2.reps) \o " completed.")

\* A rep was completed: the counter, its display, the spoken number.
countRep(t) ==
    LET r == [t EXCEPT !.reps = @ + 1]
        r1 == [r EXCEPT !.out = Append(@, Event("rep-count", ToString(r.reps), "info"))]
        r2 == IF r1.voiceFeedbackEnabled THEN speak(r1, ToString(r1.reps)) ELSE r1
    IN  updateAIFeedback(r2, "Great form! Rep " \o ToString(r2.reps) \o " completed.")

\* Faulty variant: the rep is counted on every frame in the up window.
upPositionCheckEveryFrame(t) ==
    IF t.elbowAngle > 170 /\ t.elbowAngle < 200
    THEN [countRep(t) EXCEPT !.upPosition = TRUE, !.downPosition = FALSE]
    ELSE t

\* Faulty variant: the up check forgets to leave the down position.
upPositionCheckKeepsDown(t) ==
    IF t.elbowAngle > 170 /\ t.elbowAngle < 200
    THEN LET c == IF t.downPosition = TRUE THEN countRep(t) ELSE t
         IN  [c EXCEPT !.upPosition = TRUE]
    ELSE t

\* Faulty variant: the phase becomes Up only when it was Down.
upPositionCheckOnlyFromDown(t) ==
    IF t.elbowAngle > 170 /\ t.elbowAngle < 200 /\ t.downPosition = TRUE
    THEN [countRep(t) EXCEPT !.upPosition = TRUE, !.downPosition = FALSE]
    ELSE t

\* checkPushupPositions, "Check if in up position".
upPositionCheck(t) ==
    IF t.elbowAngle > 170 /\ t.elbowAngle < 200
    THEN LET c == IF t.downPosition = TRUE THEN countRep(t) ELSE t
         IN  [c EXCEPT !.upPosition = TRUE, !.downPosition = FALSE]
    ELSE t

\* Faulty variant: the down check does not look at the back.
downPositionCheckAnyBack(t, session) ==
    LET cur == getCurrentPose(session)
        elbowAboveNose == cur # <<>>
                          /\ cur[1].keypoints[NOSE].y > cur[1].keypoints[LEFT_ELBOW].y
    IN  IF elbowAboveNose /\ (Abs(t.elbowAngle) > 70) /\ (Abs(t.elbowAngle) < 100)
        THEN LET t2 == IF t.upPosition = TRUE /\ t.voiceFeedbackEnabled
                       THEN speak(t, "Up")
                       ELSE t
             IN  [t2 EXCEPT !.downPosition = TRUE, !.upPosition = FALSE]
        ELSE t

\* Faulty variant: the down check forgets to leave the up position.
downPositionCheckKeepsUp(t, session) ==
    LET cur == getCurrentPose(session)
        elbowAboveNose == cur # <<>>
                          /\ cur[1].keypoints[NOSE].y > cur[1].keypoints[LEFT_ELBOW].y
    IN  IF (t.highlightBack = FALSE) /\ elbowAboveNose
           /\ (Abs(t.elbowAngle) > 70) /\ (Abs(t.elbowAngle) < 100)
        THEN LET t2 == IF t.upPosition = TRUE /\ t.voiceFeedbackEnabled
                       THEN speak(t, "Up")
                       ELSE t
             IN  [t2 EXCEPT !.downPosition = TRUE]
        ELSE t

\* Faulty variant: "Up" is spoken on every frame in the down window.
downPositionCheckUpEveryFrame(t, session) ==
    LET cur == getCurrentPose(session)
        elbowAboveNose == cur # <<>>
                          /\ cur[1].keypoints[NOSE].y > cur[1].keypoints[LEFT_ELBOW].y
    IN  IF (t.highlightBack = FALSE) /\ elbowAboveNose
           /\ (Abs(t.elbowAngle) > 70) /\ (Abs(t.elbowAngle) < 100)
        THEN LET t2 == IF t.voiceFeedbackEnabled THEN speak(t, "Up") ELSE t
             IN  [t2 EXCEPT !.downPosition = TRUE, !.upPosition = FALSE]
        ELSE t

\* checkPushupPositions, "Check if in down position".
downPositionCheck(t, session) ==
    LET cur == getCurrentPose(session)
        elbowAboveNose == cur # <<>>
                          /\ cur[1].keypoints[NOSE].y > cur[1].keypoints[LEFT_ELBOW].y
    IN  IF (t.highlightBack = FALSE) /\ elbowAboveNose
           /\ (Abs(t.elbowAngle) > 70) /\ (Abs(t.elbowAngle) < 100)
        THEN LET t2 == IF t.upPosition = TRUE /\ t.voiceFeedbackEnabled
                       THEN speak(t, "Up")
                       ELSE t
             IN  [t2 EXCEPT !.downPosition = TRUE, !.upPosition = FALSE]
        ELSE t

checkPushupPositions(t, session) == downPositionCheck(upPositionCheck(t), session)

\* The number of keypoints drawn: those whose score exceeds the threshold.
drawnCount(pose) ==
    Cardinality({i \in 0..(NumKeypoints - 1) : pose.keypoints[i].score > ScoreThreshold})

\* Faulty variant: the pose logic runs for push-ups only.
drawKeypointsPushupsOnly(t, ps, session) ==
    IF Len(ps) > 0 /\ t.currentExercise = "pushups"
    THEN IF drawnCount(ps[1]) = NumKeypoints
         THEN checkPushupPositions(updateBackAngle(updateArmAngle(t, ps[1]), ps[1]),
                                   session)
         ELSE t
    ELSE t

drawKeypoints(t, ps, session) ==
    IF Len(ps) > 0
    THEN IF drawnCount(ps[1]) = NumKeypoints
         THEN checkPushupPositions(updateBackAngle(updateArmAngle(t, ps[1]), ps[1]),
                                   session)
         ELSE t
    ELSE t

updateExerciseFeedback(t, pose) ==
    LET upWindow == t.elbowAngle > 160 /\ t.elbowAngle < 200
        feedback ==
          CASE t.currentExercise = "pushups" /\ t.highlightBack /\ upWindow ->
                 "Keep your back straight. Good up position"
            [] t.currentExercise = "pushups" /\ t.highlightBack /\ ~upWindow ->
                 "Keep your back straight"
            [] t.currentExercise = "pushups" /\ ~t.highlightBack /\ upWindow ->
                 "Good up position"
            [] t.currentExercise = "squats" -> "Maintain good squat form"
            [] OTHER -> ""
    IN  IF feedback # "" THEN updateAIFeedback(t, feedback) ELSE t

analyzeAndProvideFeedback(t, pose) == updateExerciseFeedback(t, pose)

\* Copy the fields of t back into the instance.
Store(t) ==
    /\ reps' = t.reps
    /\ elbowAngle' = t.elbowAngle
    /\ backAngle' = t.backAngle
    /\ upPosition' = t.upPosition
    /\ downPosition' = t.downPosition
    /\ highlightBack' = t.highlightBack
    /\ backWarningGiven' = t.backWarningGiven
    /\ emitted' = t.out

poseFields == <<reps, elbowAngle, backAngle, upPosition, downPosition,
                highlightBack, backWarningGiven>>

lifeFields == <<p5Instance, poseDetector, video, cameraStream, workoutTimer,
                awaitingP5, awaitingMedia, activeIntervals>>

\* ---------------------------------------------------------- src/server.js
\* The Express application: requests are handled concurrently, each handler
\* runs from one await to the next.  A user's _id is its index in users, a
\* measurement's _id its index in measurements; a deleted measurement keeps
\* its index and is marked deleted, so no _id is used twice.
Slots == {1, 2}

\* The email of a registered user and one that is not registered at the start.
Emails == {"a@x", "c@x"}

REGISTER == "POST /api/auth/register"
POST_MEASUREMENTS == "POST /api/measurements"
GET_MEASUREMENTS == "GET /api/measurements"
GET_MEASUREMENTS_STATS == "GET /api/measurements/stats"
GET_MEASUREMENTS_LATEST == "GET /api/measurements/latest"
DELETE_MEASUREMENT == "DELETE /api/measurements/:id"

\* The measurement routes, all registered with authenticateToken.
AuthRoutes == {POST_MEASUREMENTS, GET_MEASUREMENTS, GET_MEASUREMENTS_STATS,
               GET_MEASUREMENTS_LATEST, DELETE_MEASUREMENT}

\* The Authorization header: absent, a token jwt.verify rejects, or a token
\* signed for the user with _id userId.
NoToken == [kind |-> "none", userId |-> 0]
InvalidToken == [kind |-> "invalid", userId |-> 0]
ValidToken(u) == [kind |-> "valid", userId |-> u]
Tokens == {NoToken, InvalidToken} \cup {ValidToken(u) : u \in 1..Len(users)}

\* A field of a request body: <<>> is undefined, <<v>> the number v.
NoBody == [chest |-> <<>>, leftBicep |-> <<>>, rightBicep |-> <<>>]
PostBodies ==
    { NoBody,
      [chest |-> <<95>>, leftBicep |-> <<30>>, rightBicep |-> <<>>],
      [chest |-> <<0>>, leftBicep |-> <<>>, rightBicep |-> <<>>] }

\* JavaScript's !v for an undefined or numeric v.
Not(v) == v = <<>> \/ v[1] = 0

\* origin tells a request the measurement page sent with fetch ("page") from
\* the requests of other clients.
Idle == [route |-> "", token |-> NoToken, user |-> 0, email |-> "", id |-> 0,
         body |-> NoBody, pc |-> "idle", origin |-> ""]

Request(route, token, email, id, body) ==
    [route |-> route, token |-> token, user |-> 0, email |-> email, id |-> id,
     body |-> body, pc |-> IF route \in AuthRoutes THEN "auth" ELSE "handler",
     origin |-> "other"]

\* The requests a client can send in the current state.
Incoming ==
    {Request(REGISTER, NoToken, e, 0, NoBody) : e \in Emails}
    \cup {Request(POST_MEASUREMENTS, t, "", 0, b) : t \in Tokens, b \in PostBodies}
    \cup {Request(r, t, "", 0, NoBody) :
            r \in {GET_MEASUREMENTS, GET_MEASUREMENTS_STATS, GET_MEASUREMENTS_LATEST},
            t \in Tokens}
    \cup {Request(DELETE_MEASUREMENT, t, "", i, NoBody) :
            t \in Tokens, i \in 1..(Len(measurements) + 1)}

\* The last response, with the caller, the :id and the origin of the request
\* it answers; settled tells that the page's fetch has resumed on it.
NoResponse == [slot |-> 0, route |-> "", status |-> 0, error |-> "", body |-> {},
               caller |-> NoToken, id |-> 0, origin |-> "", settled |-> FALSE]

\* res.status(status).json(...): the response ends the request.
Respond(s, status, error, body) ==
    /\ res' = [slot |-> s, route |-> requests[s].route, status |-> status,
               error |-> error, body |-> body,
               caller |-> requests[s].token, id |-> requests[s].id,
               origin |-> requests[s].origin, settled |-> FALSE]
    /\ requests' = [requests EXCEPT ![s] = Idle]

\* User.findOne({ email }).
UserWithEmail(email) == \E u \in 1..Len(users) : users[u].email = email

\* The _ids of the stored measurements that match { userId }.
MeasurementsOf(userId) ==
    {i \in 1..Len(measurements) :
        ~measurements[i].deleted /\ measurements[i].userId = userId}

Max(S) == CHOOSE x \in S : \A y \in S : y <= x

\* The server starts on a database that holds two registered users and no
\* measurement.
ServerInit ==
    /\ users = <<[email |-> "a@x"], [email |-> "b@x"]>>
    /\ measurements = <<>>
    /\ requests = [s \in Slots |-> Idle]
    /\ res = NoResponse
    /\ received = 0

\* A request arrives and is routed; it is handled in the first free slot.
Receive(s, req) ==
    /\ requests[s] = Idle
    /\ \A t \in Slots : t < s => requests[t] # Idle
    /\ received < MaxRequests
    /\ received' = received + 1
    /\ requests' = [requests EXCEPT ![s] = req]
    /\ UNCHANGED <<users, measurements, res>>
    /\ UNCHANGED <<workoutVars, clientVars>>

\* Faulty variant: a token that fails verification is let through.
authenticateTokenIgnoresError(s) ==
    /\ requests[s].pc = "auth"
    /\ IF requests[s].token.kind = "none"
       THEN Respond(s, 401, "Access token required", {})
       ELSE /\ requests' = [requests EXCEPT ![s].user = requests[s].token.userId,
                                            ![s].pc = "handler"]
            /\ UNCHANGED res
    /\ UNCHANGED <<users, measurements, received>>
    /\ UNCHANGED <<workoutVars, clientVars>>

authenticateToken(s) ==
    /\ requests[s].pc = "auth"
    /\ CASE requests[s].token.kind = "none" ->
              Respond(s, 401, "Access token required", {})
         [] requests[s].token.kind = "invalid" ->
              Respond(s, 403, "Invalid token", {})
         [] OTHER ->
              /\ requests' = [requests EXCEPT ![s].user = requests[s].token.userId,
                                              ![s].pc = "handler"]
              /\ UNCHANGED res
    /\ UNCHANGED <<users, measurements, received>>
    /\ UNCHANGED <<workoutVars, clientVars>>

\* POST /api/auth/register up to await User.findOne.
register(s) ==
    /\ requests[s].route = REGISTER /\ requests[s].pc = "handler"
    /\ IF UserWithEmail(requests[s].email)
       THEN Respond(s, 400, "User already exists", {})
       ELSE /\ requests' = [requests EXCEPT ![s].pc = "save"]
            /\ UNCHANGED res
    /\ UNCHANGED <<users, measurements, received>>
    /\ UNCHANGED <<workoutVars, clientVars>>

\* await user.save() and the rest of the handler: the unique index on email
\* rejects a second document with the same email, the handler's catch
\* answers 500.
registerSave(s) ==
    /\ requests[s].route = REGISTER /\ requests[s].pc = "save"
    /\ IF UserWithEmail(requests[s].email)
       THEN /\ Respond(s, 500, "Server error", {})
            /\ UNCHANGED users
       ELSE /\ users' = Append(users, [email |-> requests[s].email])
            /\ Respond(s, 201, "", {})
    /\ UNCHANGED <<measurements, received>>
    /\ UNCHANGED <<workoutVars, clientVars>>

\* Faulty variant: the body is not validated.
postMeasurementsNoValidation(s) ==
    /\ requests[s].route = POST_MEASUREMENTS /\ requests[s].pc = "handler"
    /\ requests' = [requests EXCEPT ![s].pc = "save"]
    /\ UNCHANGED res
    /\ UNCHANGED <<users, measurements, received>>
    /\ UNCHANGED <<workoutVars, clientVars>>

\* POST /api/measurements up to await measurement.save().
postMeasurements(s) ==
    /\ requests[s].route = POST_MEASUREMENTS /\ requests[s].pc = "handler"
    /\ LET b == requests[s].body
       IN  IF Not(b.chest) /\ Not(b.leftBicep) /\ Not(b.rightBicep)
           THEN Respond(s, 400, "At least one measurement is required", {})
           ELSE /\ requests' = [requests EXCEPT ![s].pc = "save"]
                /\ UNCHANGED res
    /\ UNCHANGED <<users, measurements, received>>
    /\ UNCHANGED <<workoutVars, clientVars>>

postMeasurementsSave(s) ==
    /\ requests[s].route = POST_MEASUREMENTS /\ requests[s].pc = "save"
    /\ measurements' = Append(measurements,
                              [userId |-> requests[s].user, deleted |-> FALSE])
    /\ Respond(s, 201, "", {Len(measurements) + 1})
    /\ UNCHANGED <<users, received>>
    /\ UNCHANGED <<workoutVars, clientVars>>

\* GET /api/measurements: find(query) with query.userId = req.user.userId.
getMeasurements(s) ==
    /\ requests[s].route = GET_MEASUREMENTS /\ requests[s].pc = "handler"
    /\ Respond(s, 200, "", MeasurementsOf(requests[s].user))
    /\ UNCHANGED <<users, measurements, received>>
    /\ UNCHANGED <<workoutVars, clientVars>>

\* GET /api/measurements/stats: the documents the aggregate matches.
getMeasurementsStats(s) ==
    /\ requests[s].route = GET_MEASUREMENTS_STATS /\ requests[s].pc = "handler"
    /\ Respond(s, 200, "", MeasurementsOf(requests[s].user))
    /\ UNCHANGED <<users, measurements, received>>
    /\ UNCHANGED <<workoutVars, clientVars>>

\* GET /api/measurements/latest.
getMeasurementsLatest(s) ==
    /\ requests[s].route = GET_MEASUREMENTS_LATEST /\ requests[s].pc = "handler"
    /\ LET own == MeasurementsOf(requests[s].user)
       IN  IF own = {}
           THEN Respond(s, 404, "No measurements found", {})
           ELSE Respond(s, 200, "", {Max(own)})
    /\ UNCHANGED <<users, measurements, received>>
    /\ UNCHANGED <<workoutVars, clientVars>>

\* Faulty variant: the measurement is looked up by its _id alone.
deleteMeasurementAnyOwner(s) ==
    /\ requests[s].route = DELETE_MEASUREMENT /\ requests[s].pc = "handler"
    /\ IF requests[s].id \in 1..Len(measurements)
          /\ ~measurements[requests[s].id].deleted
       THEN /\ requests' = [requests EXCEPT ![s].pc = "deleteOne"]
            /\ UNCHANGED res
       ELSE Respond(s, 404, "Measurement not found", {})
    /\ UNCHANGED <<users, measurements, received>>
    /\ UNCHANGED <<workoutVars, clientVars>>

\* DELETE /api/measurements/:id up to await BodyMeasurement.findOne.
deleteMeasurement(s) ==
    /\ requests[s].route = DELETE_MEASUREMENT /\ requests[s].pc = "handler"
    /\ IF requests[s].id \in MeasurementsOf(requests[s].user)
       THEN /\ requests' = [requests EXCEPT ![s].pc = "deleteOne"]
            /\ UNCHANGED res
       ELSE Respond(s, 404, "Measurement not found", {})
    /\ UNCHANGED <<users, measurements, received>>
    /\ UNCHANGED <<workoutVars, clientVars>>

\* await BodyMeasurement.deleteOne({ _id: id }) and the response.
deleteMeasurementDeleteOne(s) ==
    /\ requests[s].route = DELETE_MEASUREMENT /\ requests[s].pc = "deleteOne"
    /\ measurements' = [measurements EXCEPT ![requests[s].id].deleted = TRUE]
    /\ Respond(s, 200, "", {})
    /\ UNCHANGED <<users, received>>
    /\ UNCHANGED <<workoutVars, clientVars>>

\* The server is not part of the run.
ServerQuiet ==
    /\ users = <<>>
    /\ measurements = <<>>
    /\ requests = [s \in Slots |-> Idle]
    /\ res = NoResponse
    /\ received = 0

\* The BodyMeasurement constructor, with nothing in localStorage.  null is
\* <<>>, a number v is <<v>>.
NewBodyMeasurement ==
    [isDetecting |-> FALSE, isCalibrating |-> FALSE, isCalibrated |-> FALSE,
     scaleCmPerPixel |-> <<>>,
     currentMeasurements |-> [chest |-> <<>>, leftBicep |-> <<>>, rightBicep |-> <<>>],
     measurementHistory |-> <<>>,
     calibrationFrames |-> <<>>]

ClientQuiet ==
    /\ bm = NewBodyMeasurement
    /\ localStorage = [poseai_measurements |-> <<>>, poseai_token |-> NoToken]
    /\ statusText = ""
    /\ clock = 0
    /\ bmPending = 0

\* ------------------------------------- src/body-measurement.js, the client
\* class BodyMeasurement.  Lengths on the canvas are whole pixels, the scale
\* is in tenths of a centimetre per pixel, measurements in tenths of a
\* centimetre; the shoulder widths of the frames divide 400, so that
\* 40.0 / shoulderWidth is a whole number of tenths.

\* A frame as the measurement code reads it: x and score (tenths) of the
\* shoulders, elbows and wrists, and the two values Math.sqrt returns for the
\* upper arms.
BmPose(sc, leftX, rightX, arm) ==
    [keypoints |-> [i \in {LEFT_SHOULDER, RIGHT_SHOULDER, LEFT_ELBOW, RIGHT_ELBOW,
                           LEFT_WRIST, RIGHT_WRIST} |->
                      [x |-> IF i = LEFT_SHOULDER THEN leftX
                             ELSE IF i = RIGHT_SHOULDER THEN rightX ELSE 0,
                       score |-> sc[i]]],
     sqrt |-> [leftBicep |-> arm, rightBicep |-> arm + 1]]

BmAllHigh == [i \in 5..10 |-> 9]
BmWristAtThreshold == [i \in 5..10 |-> IF i = RIGHT_WRIST THEN 5 ELSE 9]
BmShoulderLow == [i \in 5..10 |-> IF i \in {LEFT_SHOULDER, RIGHT_ELBOW} THEN 2 ELSE 9]

\* Frames of a calibration: two that qualify, with shoulder widths 10 and 20,
\* and three that do not (shoulder width 0, a wrist at exactly 0.5, a low
\* left shoulder and right elbow).
CalibrationPoses ==
    { BmPose(BmAllHigh, 30, 20, 12),
      BmPose(BmAllHigh, 20, 40, 12),
      BmPose(BmAllHigh, 25, 25, 12),
      BmPose(BmWristAtThreshold, 30, 20, 12),
      BmPose(BmShoulderLow, 30, 20, 12) }

RECURSIVE SumSeq(_)
SumSeq(q) == IF q = <<>> THEN 0 ELSE q[1] + SumSeq(Tail(q))

\* The instance with the status text, as the methods read and write them.
Self == [f \in (DOMAIN bm) \cup {"statusText"} |->
           IF f = "statusText" THEN statusText ELSE bm[f]]

updateStatus(t, message) == [t EXCEPT !.statusText = message]

\* Copy the fields of t back into the instance and the status text.
StoreSelf(t) ==
    /\ bm' = [f \in DOMAIN bm |-> t[f]]
    /\ statusText' = t.statusText

\* The test of calibrateWithHand on a frame.
Qualifies(pose) ==
    /\ pose.keypoints[LEFT_SHOULDER].score > CalibrationThreshold
    /\ pose.keypoints[RIGHT_SHOULDER].score > CalibrationThreshold
    /\ pose.keypoints[LEFT_WRIST].score > CalibrationThreshold
    /\ pose.keypoints[RIGHT_WRIST].score > CalibrationThreshold
    /\ Abs(pose.keypoints[RIGHT_SHOULDER].x - pose.keypoints[LEFT_SHOULDER].x) > 0

\* 40.0 / shoulderWidth, in tenths.
Sample(pose) ==
    (SHOULDER_WIDTH_CM * 10)
        \div Abs(pose.keypoints[RIGHT_SHOULDER].x - pose.keypoints[LEFT_SHOULDER].x)

\* Faulty variant: calibration completes one frame early.
calibrateWithHandEarly(t, pose) ==
    IF Qualifies(pose)
    THEN LET t1 == [t EXCEPT !.scaleCmPerPixel = <<Sample(pose)>>,
                             !.calibrationFrames = Append(@, Sample(pose))]
         IN  IF Len(t1.calibrationFrames) >= CalibrationSamples - 1
             THEN updateStatus(
                    [t1 EXCEPT !.scaleCmPerPixel =
                                  <<SumSeq(t1.calibrationFrames)
                                      \div Len(t1.calibrationFrames)>>,
                               !.isCalibrated = TRUE,
                               !.isCalibrating = FALSE,
                               !.calibrationFrames = <<>>],
                    "Calibration complete")
             ELSE t1
    ELSE t

calibrateWithHand(t, pose) ==
    IF Qualifies(pose)
    THEN LET t1 == [t EXCEPT !.scaleCmPerPixel = <<Sample(pose)>>,
                             !.calibrationFrames = Append(@, Sample(pose))]
         IN  IF Len(t1.calibrationFrames) >= CalibrationSamples
             THEN updateStatus(
                    [t1 EXCEPT !.scaleCmPerPixel =
                                  <<SumSeq(t1.calibrationFrames)
                                      \div Len(t1.calibrationFrames)>>,
                               !.isCalibrated = TRUE,
                               !.isCalibrating = FALSE,
                               !.calibrationFrames = <<>>],
                    "Calibration complete")
             ELSE t1
    ELSE t

measurementsWithPose(t, pose) ==
    LET leftShoulder == pose.keypoints[LEFT_SHOULDER]
        rightShoulder == pose.keypoints[RIGHT_SHOULDER]
        leftElbow == pose.keypoints[LEFT_ELBOW]
        rightElbow == pose.keypoints[RIGHT_ELBOW]
        scale == t.scaleCmPerPixel[1]
        t1 == IF leftShoulder.score > CalibrationThreshold
                 /\ rightShoulder.score > CalibrationThreshold
              THEN [t EXCEPT !.currentMeasurements.chest =
                                <<Abs(rightShoulder.x - leftShoulder.x) * scale>>]
              ELSE t
        t2 == IF leftShoulder.score > CalibrationThreshold
                 /\ leftElbow.score > CalibrationThreshold
              THEN [t1 EXCEPT !.currentMeasurements.leftBicep =
                                 <<pose.sqrt.leftBicep * scale>>]
              ELSE t1
    IN  IF rightShoulder.score > CalibrationThreshold
           /\ rightElbow.score > CalibrationThreshold
        THEN [t2 EXCEPT !.currentMeasurements.rightBicep =
                           <<pose.sqrt.rightBicep * scale>>]
        ELSE t2

\* startCamera after its two awaits: detection is switched on and detectPose
\* is called.  The camera is started while no earlier detection is in flight.
BmCameraStarted ==
    /\ bmPending = 0
    /\ StoreSelf(updateStatus([Self EXCEPT !.isDetecting = TRUE], "Camera started"))
    /\ bmPending' = bmPending + 1
    /\ UNCHANGED <<localStorage, clock>>
    /\ UNCHANGED <<workoutVars, serverVars>>

BmStopCamera ==
    /\ StoreSelf(updateStatus([Self EXCEPT !.isDetecting = FALSE], "Camera stopped"))
    /\ UNCHANGED <<localStorage, clock, bmPending>>
    /\ UNCHANGED <<workoutVars, serverVars>>

\* estimatePoses resolves with ps (no pose, or one pose): the rest of
\* detectPose, and the guard of the detectPose call it schedules.
BmEstimateResolve(ps) ==
    /\ bmPending > 0
    /\ StoreSelf(IF Len(ps) > 0
                 THEN IF bm.isCalibrating THEN calibrateWithHand(Self, ps[1])
                      ELSE IF bm.isCalibrated THEN measurementsWithPose(Self, ps[1])
                      ELSE Self
                 ELSE Self)
    /\ bmPending' = IF bm.isDetecting THEN bmPending ELSE bmPending - 1
    /\ UNCHANGED <<localStorage, clock>>
    /\ UNCHANGED <<workoutVars, serverVars>>

startCalibration ==
    /\ IF ~bm.isDetecting
       THEN StoreSelf(updateStatus(Self, "Please start camera first"))
       ELSE StoreSelf(updateStatus([Self EXCEPT !.isCalibrating = TRUE,
                                                !.calibrationFrames = <<>>],
                                   "Stand with arms extended for calibration"))
    /\ UNCHANGED <<localStorage, clock, bmPending>>
    /\ UNCHANGED <<workoutVars, serverVars>>

\* The frames of a measurement session: one that calibrates and measures, and
\* one with a wrist at exactly 0.5 that measures but does not calibrate.
MeasurePoses ==
    { BmPose(BmAllHigh, 30, 20, 12),
      BmPose(BmWristAtThreshold, 30, 20, 12) }

\* Faulty variant: the history grows without limit.
addToHistoryNoLimit(t, now) ==
    LET measurement == [timestamp |-> now,
                        chest |-> t.currentMeasurements.chest,
                        leftBicep |-> t.currentMeasurements.leftBicep,
                        rightBicep |-> t.currentMeasurements.rightBicep]
    IN  [t EXCEPT !.measurementHistory = <<measurement>> \o @]

\* addToHistory up to updateHistoryDisplay: unshift, then pop when the
\* history is longer than 10.
addToHistory(t, now) ==
    LET measurement == [timestamp |-> now,
                        chest |-> t.currentMeasurements.chest,
                        leftBicep |-> t.currentMeasurements.leftBicep,
                        rightBicep |-> t.currentMeasurements.rightBicep]
        unshifted == <<measurement>> \o t.measurementHistory
    IN  [t EXCEPT !.measurementHistory =
                     IF Len(unshifted) > HistoryLimit
                     THEN SubSeq(unshifted, 1, Len(unshifted) - 1)
                     ELSE unshifted]

\* Faulty variant: no calibration is asked for.
takeMeasurementUncalibrated ==
    /\ clock < MaxTakes
    /\ clock' = clock + 1
    /\ LET t == addToHistory(updateStatus(Self, "Measurements complete"), clock + 1)
       IN  /\ StoreSelf(t)
           /\ localStorage' = [localStorage EXCEPT
                                 !.poseai_measurements = t.measurementHistory]
    /\ UNCHANGED bmPending
    /\ UNCHANGED <<workoutVars, serverVars>>

\* takeMeasurement with addToHistory and saveMeasurementHistory; new Date()
\* reads the clock, which has advanced since the last measurement.
takeMeasurement ==
    /\ IF ~bm.isCalibrated
       THEN /\ StoreSelf(updateStatus(Self, "Please calibrate first"))
            /\ UNCHANGED <<localStorage, clock>>
       ELSE /\ clock < MaxTakes
            /\ clock' = clock + 1
            /\ LET t == addToHistory(updateStatus(Self, "Measurements complete"),
                                     clock + 1)
               IN  /\ StoreSelf(t)
                   /\ localStorage' = [localStorage EXCEPT
                                         !.poseai_measurements = t.measurementHistory]
    /\ UNCHANGED bmPending
    /\ UNCHANGED <<workoutVars, serverVars>>

\* The page is loaded again: the constructor, init and loadMeasurementHistory,
\* which reads back what saveMeasurementHistory wrote.
NewPage ==
    /\ bm' = [NewBodyMeasurement EXCEPT
                !.measurementHistory = localStorage.poseai_measurements]
    /\ statusText' = "AI model loaded"
    /\ bmPending' = 0
    /\ UNCHANGED <<localStorage, clock>>
    /\ UNCHANGED <<workoutVars, serverVars>>

\* saveMeasurementsToServer up to await fetch: the request is sent only when
\* a current measurement and a stored token exist.
saveMeasurementsToServer(s) ==
    LET cm == bm.currentMeasurements
        token == localStorage.poseai_token
    IN  /\ IF Not(cm.chest) /\ Not(cm.leftBicep) /\ Not(cm.rightBicep)
           THEN /\ statusText' = "No measurements to save"
                /\ UNCHANGED serverVars
           ELSE IF token.kind = "none"
           THEN /\ statusText' = "Please login to save measurements"
                /\ UNCHANGED serverVars
           ELSE /\ requests[s] = Idle
                /\ \A t \in Slots : t < s => requests[t] # Idle
                /\ received < MaxRequests
                /\ received' = received + 1
                /\ requests' =
                      [requests EXCEPT ![s] =
                         [Request(POST_MEASUREMENTS, token, "", 0, cm)
                            EXCEPT !.origin = "page"]]
                /\ UNCHANGED <<users, measurements, res, statusText>>
        /\ UNCHANGED <<bm, localStorage, clock, bmPending>>
        /\ UNCHANGED workoutVars

\* saveMeasurementsToServer after await fetch: response.ok or the catch.
SaveSettled ==
    /\ res.origin = "page" /\ ~res.settled
    /\ res' = [res EXCEPT !.settled = TRUE]
    /\ statusText' = IF res.status \in 200..299
                     THEN "Measurements saved successfully"
                     ELSE "Failed to save measurements"
    /\ UNCHANGED <<users, measurements, requests, received>>
    /\ UNCHANGED <<bm, localStorage, clock, bmPending>>
    /\ UNCHANGED workoutVars

\* ------------------------------------------------------------------ state
\* The PoseAI constructor.
PoseAIInit ==
    /\ currentExercise = "pushups"
    /\ reps = 0
    /\ elbowAngle = InitElbowAngle
    /\ backAngle = 0
    /\ upPosition = FALSE
    /\ downPosition = FALSE
    /\ highlightBack = FALSE
    /\ backWarningGiven = FALSE
    /\ voiceFeedbackEnabled = TRUE
    /\ p5Instance = FALSE
    /\ poseDetector = FALSE
    /\ video = FALSE
    /\ cameraStream = FALSE
    /\ workoutTimer = FALSE
    /\ workoutSession = NoSession
    /\ poses = <<>>
    /\ awaitingP5 = 0
    /\ awaitingMedia = 0
    /\ pendingEstimates = 0
    /\ scheduledFrames = 0
    /\ activeIntervals = 0
    /\ emitted = <<>>

Init == PoseAIInit /\ ServerQuiet /\ ClientQuiet

\* ---------------------------------------------------------------- actions
\* startCamera up to its first await: initializeP5 when there is no p5
\* instance yet, getUserMedia otherwise.
StartCameraCall ==
    /\ awaitingP5 + awaitingMedia < MaxStarts
    /\ IF ~p5Instance
       THEN /\ p5Instance' = TRUE
            /\ awaitingP5' = awaitingP5 + 1
            /\ awaitingMedia' = awaitingMedia
       ELSE /\ awaitingMedia' = awaitingMedia + 1
            /\ UNCHANGED <<p5Instance, awaitingP5>>
    /\ emitted' = <<>>
    /\ UNCHANGED <<poseFields, currentExercise, voiceFeedbackEnabled, poseDetector,
                   video, cameraStream, workoutTimer, workoutSession, poses,
                   pendingEstimates, scheduledFrames, activeIntervals>>
    /\ UNCHANGED <<serverVars, clientVars>>

\* p.setup finishes: the capture exists, the detector is loaded or its loading
\* failed, and the startCamera call that awaited it goes on to getUserMedia.
P5SetupDone(loaded) ==
    /\ awaitingP5 > 0
    /\ video' = TRUE
    /\ poseDetector' = loaded
    /\ awaitingP5' = awaitingP5 - 1
    /\ awaitingMedia' = awaitingMedia + 1
    /\ emitted' = <<Event("ai-feedback",
                          IF loaded THEN "AI model loaded successfully!"
                          ELSE "AI model loading failed. Demo mode active.", "info")>>
    /\ UNCHANGED <<poseFields, currentExercise, voiceFeedbackEnabled, p5Instance,
                   cameraStream, workoutTimer, workoutSession, poses,
                   pendingEstimates, scheduledFrames, activeIntervals>>
    /\ UNCHANGED <<serverVars, clientVars>>

\* The test at the head of detectPose.
detectPoseRuns(detector, stream, vid) == detector /\ stream /\ vid

startWorkoutSession == [exists |-> TRUE, poses |-> <<>>]

\* getUserMedia resolves: the rest of startCamera.
StartCameraResume ==
    /\ awaitingMedia > 0
    /\ awaitingMedia' = awaitingMedia - 1
    /\ cameraStream' = TRUE
    /\ IF poseDetector /\ detectPoseRuns(poseDetector, TRUE, video)
       THEN /\ pendingEstimates + scheduledFrames < MaxChains
            /\ pendingEstimates' = pendingEstimates + 1
       ELSE pendingEstimates' = pendingEstimates
    /\ workoutSession' = startWorkoutSession
    /\ activeIntervals < MaxTimers
    /\ activeIntervals' = activeIntervals + 1
    /\ workoutTimer' = TRUE
    /\ emitted' = <<Event("ai-feedback",
                          "Camera started! Position yourself in frame and begin exercising.",
                          "info")>>
    /\ UNCHANGED <<poseFields, currentExercise, voiceFeedbackEnabled, p5Instance,
                   poseDetector, video, poses, awaitingP5, scheduledFrames>>
    /\ UNCHANGED <<serverVars, clientVars>>

\* getUserMedia rejects: the catch block of startCamera.
StartCameraFail ==
    /\ awaitingMedia > 0
    /\ awaitingMedia' = awaitingMedia - 1
    /\ emitted' = <<Event("ai-feedback",
                          "Camera access denied. Please allow camera permissions.", "info")>>
    /\ UNCHANGED <<poseFields, currentExercise, voiceFeedbackEnabled, p5Instance,
                   poseDetector, video, cameraStream, workoutTimer, workoutSession,
                   poses, awaitingP5, pendingEstimates, scheduledFrames, activeIntervals>>
    /\ UNCHANGED <<serverVars, clientVars>>

stopCamera ==
    /\ cameraStream' = FALSE
    /\ IF workoutTimer
       THEN /\ activeIntervals' = activeIntervals - 1
            /\ workoutTimer' = FALSE
       ELSE UNCHANGED <<activeIntervals, workoutTimer>>
    /\ emitted' = <<>>
    /\ UNCHANGED <<poseFields, currentExercise, voiceFeedbackEnabled, p5Instance,
                   poseDetector, video, workoutSession, poses, awaitingP5, awaitingMedia,
                   pendingEstimates, scheduledFrames>>
    /\ UNCHANGED <<serverVars, clientVars>>

\* The callback detectPose queued with requestAnimationFrame runs: detectPose
\* up to its await.
AnimationFrame ==
    /\ scheduledFrames > 0
    /\ scheduledFrames' = scheduledFrames - 1
    /\ pendingEstimates' = IF detectPoseRuns(poseDetector, cameraStream, video)
                           THEN pendingEstimates + 1
                           ELSE pendingEstimates
    /\ emitted' = <<>>
    /\ UNCHANGED <<poseFields, currentExercise, voiceFeedbackEnabled, lifeFields,
                   workoutSession, poses>>
    /\ UNCHANGED <<serverVars, clientVars>>

\* Faulty variant: an empty result does not replace the sketch's poses.
EstimateResolveKeepsPoses(ps) ==
    /\ pendingEstimates > 0
    /\ pendingEstimates' = pendingEstimates - 1
    /\ scheduledFrames' = scheduledFrames + 1
    /\ poses' = IF p5Instance /\ Len(ps) > 0 THEN ps ELSE poses
    /\ IF Len(ps) > 0
       THEN /\ IF workoutSession.exists
               THEN workoutSession' =
                      [workoutSession EXCEPT !.poses = KeepLast(Append(@, ps[1]))]
               ELSE UNCHANGED workoutSession
            /\ emitted' = analyzeAndProvideFeedback(This, ps[1]).out
       ELSE /\ UNCHANGED workoutSession
            /\ emitted' = <<>>
    /\ UNCHANGED <<poseFields, currentExercise, voiceFeedbackEnabled, lifeFields>>
    /\ UNCHANGED <<serverVars, clientVars>>

\* estimatePoses resolves with ps (no pose, or one pose): the rest of
\* detectPose.
EstimateResolve(ps) ==
    /\ pendingEstimates > 0
    /\ pendingEstimates' = pendingEstimates - 1
    /\ scheduledFrames' = scheduledFrames + 1
    /\ poses' = IF p5Instance THEN ps ELSE poses
    /\ IF Len(ps) > 0
       THEN /\ IF workoutSession.exists
               THEN workoutSession' =
                      [workoutSession EXCEPT !.poses = KeepLast(Append(@, ps[1]))]
               ELSE UNCHANGED workoutSession
            /\ emitted' = analyzeAndProvideFeedback(This, ps[1]).out
       ELSE /\ UNCHANGED workoutSession
            /\ emitted' = <<>>
    /\ UNCHANGED <<poseFields, currentExercise, voiceFeedbackEnabled, lifeFields>>
    /\ UNCHANGED <<serverVars, clientVars>>

\* One turn of the p5 draw loop.
Draw ==
    /\ p5Instance
    /\ LET t == drawKeypoints(This, poses, workoutSession)
       IN  /\ t.reps <= MaxReps
           /\ Store(t)
    /\ UNCHANGED <<currentExercise, voiceFeedbackEnabled, lifeFields, workoutSession,
                   poses, pendingEstimates, scheduledFrames>>
    /\ UNCHANGED <<serverVars, clientVars>>

\* Faulty variant: the reset leaves backWarningGiven as it is.
resetWorkoutKeepsWarning ==
    /\ reps' = 0
    /\ elbowAngle' = InitElbowAngle
    /\ backAngle' = 0
    /\ upPosition' = FALSE
    /\ downPosition' = FALSE
    /\ highlightBack' = FALSE
    /\ emitted' = <<Event("ai-feedback", "Workout reset. Ready to start!", "info"),
                    Event("form-feedback", "", "")>>
    /\ UNCHANGED <<backWarningGiven, currentExercise, voiceFeedbackEnabled, lifeFields,
                   workoutSession, poses, pendingEstimates, scheduledFrames>>
    /\ UNCHANGED <<serverVars, clientVars>>

resetWorkout ==
    /\ reps' = 0
    /\ elbowAngle' = InitElbowAngle
    /\ backAngle' = 0
    /\ upPosition' = FALSE
    /\ downPosition' = FALSE
    /\ highlightBack' = FALSE
    /\ backWarningGiven' = FALSE
    /\ emitted' = <<Event("ai-feedback", "Workout reset. Ready to start!", "info"),
                    Event("form-feedback", "", "")>>
    /\ UNCHANGED <<currentExercise, voiceFeedbackEnabled, lifeFields, workoutSession,
                   poses, pendingEstimates, scheduledFrames>>
    /\ UNCHANGED <<serverVars, clientVars>>

\* Faulty variant: the exercise is recorded but the workout is not reset.
selectExerciseNoReset(exerciseType) ==
    /\ currentExercise' = exerciseType
    /\ emitted' = <<>>
    /\ UNCHANGED <<poseFields, voiceFeedbackEnabled, lifeFields, workoutSession,
                   poses, pendingEstimates, scheduledFrames>>
    /\ UNCHANGED <<serverVars, clientVars>>

selectExercise(exerciseType) ==
    /\ currentExercise' = exerciseType
    /\ reps' = 0
    /\ elbowAngle' = InitElbowAngle
    /\ backAngle' = 0
    /\ upPosition' = FALSE
    /\ downPosition' = FALSE
    /\ highlightBack' = FALSE
    /\ backWarningGiven' = FALSE
    /\ emitted' = <<Event("ai-feedback", "Workout reset. Ready to start!", "info"),
                    Event("form-feedback", "", "")>>
    /\ UNCHANGED <<voiceFeedbackEnabled, lifeFields, workoutSession,
                   poses, pendingEstimates, scheduledFrames>>
    /\ UNCHANGED <<serverVars, clientVars>>

\* The change listener of the voice-feedback checkbox.
SetVoiceFeedback(checked) ==
    /\ voiceFeedbackEnabled' = checked
    /\ emitted' = <<>>
    /\ UNCHANGED <<poseFields, currentExercise, lifeFields, workoutSession,
                   poses, pendingEstimates, scheduledFrames>>
    /\ UNCHANGED <<serverVars, clientVars>>

Results(poseSet) == {<<>>} \cup {<<f>> : f \in poseSet}

Next ==
    \/ StartCameraCall
    \/ \E loaded \in BOOLEAN : P5SetupDone(loaded)
    \/ StartCameraResume
    \/ StartCameraFail
    \/ stopCamera
    \/ AnimationFrame
    \/ \E ps \in Results(LifePoses) : EstimateResolve(ps)
    \/ Draw
    \/ resetWorkout
    \/ \E k \in ExerciseKinds : selectExercise(k)
    \/ \E b \in BOOLEAN : SetVoiceFeedback(b)

Spec == Init /\ [][Next]_vars

\* The frame stream of one running session: the state right after a first
\* startCamera has completed with the detector loaded, then frames, redraws,
\* resets and toggles of the voice feedback.
InitFrames ==
    /\ currentExercise = "pushups"
    /\ reps = 0
    /\ elbowAngle = InitElbowAngle
    /\ backAngle = 0
    /\ upPosition = FALSE
    /\ downPosition = FALSE
    /\ highlightBack = FALSE
    /\ backWarningGiven = FALSE
    /\ voiceFeedbackEnabled \in BOOLEAN
    /\ p5Instance = TRUE
    /\ poseDetector = TRUE
    /\ video = TRUE
    /\ cameraStream = TRUE
    /\ workoutTimer = TRUE
    /\ workoutSession = startWorkoutSession
    /\ poses = <<>>
    /\ awaitingP5 = 0
    /\ awaitingMedia = 0
    /\ pendingEstimates = 1
    /\ scheduledFrames = 0
    /\ activeIntervals = 1
    /\ emitted = <<>>
    /\ ServerQuiet /\ ClientQuiet

NextFrames ==
    \/ AnimationFrame
    \/ \E ps \in Results(FramePoses) : EstimateResolve(ps)
    \/ Draw
    \/ resetWorkout
    \/ \E b \in BOOLEAN : SetVoiceFeedback(b)

SpecFrames == InitFrames /\ [][NextFrames]_vars

\* The server handling requests; the workout page is not part of the run.
InitServer == PoseAIInit /\ ServerInit /\ ClientQuiet

NextServer ==
    \/ \E s \in Slots, req \in Incoming : Receive(s, req)
    \/ \E s \in Slots : authenticateToken(s)
    \/ \E s \in Slots : register(s)
    \/ \E s \in Slots : registerSave(s)
    \/ \E s \in Slots : postMeasurements(s)
    \/ \E s \in Slots : postMeasurementsSave(s)
    \/ \E s \in Slots : getMeasurements(s)
    \/ \E s \in Slots : getMeasurementsStats(s)
    \/ \E s \in Slots : getMeasurementsLatest(s)
    \/ \E s \in Slots : deleteMeasurement(s)
    \/ \E s \in Slots : deleteMeasurementDeleteOne(s)

SpecServer == InitServer /\ [][NextServer]_vars

\* The measurement page from the moment its camera has been started:
\* detection frames, calibrations, and stopping the camera.
InitCalibration ==
    /\ PoseAIInit /\ ServerQuiet
    /\ bm = [NewBodyMeasurement EXCEPT !.isDetecting = TRUE]
    /\ localStorage = [poseai_measurements |-> <<>>, poseai_token |-> NoToken]
    /\ statusText = "Camera started"
    /\ clock = 0
    /\ bmPending = 1

NextCalibration ==
    \/ BmStopCamera
    \/ \E ps \in Results(CalibrationPoses) : BmEstimateResolve(ps)
    \/ startCalibration

SpecCalibration == InitCalibration /\ [][NextCalibration]_vars

\* The measurement page over several visits: camera, calibration, frames,
\* measurements taken, and reloads of the page.
InitMeasure == PoseAIInit /\ ServerQuiet /\ ClientQuiet

NextMeasure ==
    \/ BmCameraStarted
    \/ \E ps \in Results(MeasurePoses) : BmEstimateResolve(ps)
    \/ startCalibration
    \/ takeMeasurement
    \/ NewPage

SpecMeasure == InitMeasure /\ [][NextMeasure]_vars

\* Saving measurements: the page of a visitor, who holds measurements or
\* not and a stored token or not, the POSTs of other clients, and the
\* server's handling of them.
PageStates ==
    { [NewBodyMeasurement EXCEPT !.isCalibrated = TRUE, !.scaleCmPerPixel = <<40>>],
      [NewBodyMeasurement EXCEPT !.isCalibrated = TRUE, !.scaleCmPerPixel = <<40>>,
                                 !.currentMeasurements.chest = <<400>>,
                                 !.currentMeasurements.leftBicep = <<480>>] }

InitSave ==
    /\ PoseAIInit /\ ServerInit
    /\ bm \in PageStates
    /\ localStorage \in {[poseai_measurements |-> <<>>, poseai_token |-> t] :
                            t \in {NoToken, InvalidToken, ValidToken(1)}}
    /\ statusText = "Calibration complete"
    /\ clock = 0
    /\ bmPending = 0

NextSave ==
    \/ \E s \in Slots : saveMeasurementsToServer(s)
    \/ SaveSettled
    \/ \E s \in Slots, t \in Tokens, b \in PostBodies :
          Receive(s, Request(POST_MEASUREMENTS, t, "", 0, b))
    \/ \E s \in Slots : authenticateToken(s)
    \/ \E s \in Slots : postMeasurements(s)
    \/ \E s \in Slots : postMeasurementsSave(s)

SpecSave == InitSave /\ [][NextSave]_vars

\* ------------------------------------------------------------------ claims
HasEvent(out, sink, msg) == \E i \in 1..Len(out) : out[i].sink = sink /\ out[i].msg = msg

\* The posture evaluator ran in the step that produced out: it writes the form
\* feedback on both of its branches.
PostureEvaluated(out) == \E i \in 1..Len(out) : out[i].sink = "form-feedback" /\ out[i].msg # ""

RepCounted(out) == \E i \in 1..Len(out) : out[i].sink = "rep-count"

InUpWindow(a) == a > 170 /\ a < 200

InDownWindow(a) == Abs(a) > 70 /\ Abs(a) < 100

\* nose.y > elbow.y in the pose the draw loop holds.
FrameElbowAboveNose(ps) ==
    Len(ps) > 0 /\ ps[1].keypoints[NOSE].y > ps[1].keypoints[LEFT_ELBOW].y

\* C1: repCount changes on a frame only by +1, only when the phase before the
\* frame was Down and the frame's elbowAngle is in (170,200), and that frame
\* leaves the phase Up, so the following frames in the up window cannot count
\* again; the only other change of repCount is a reset of the workout.
C1_RepOnlyOnDownToUp ==
    [][ reps' # reps =>
          \/ /\ reps' = reps + 1
             /\ downPosition
             /\ InUpWindow(elbowAngle')
             /\ upPosition' /\ ~downPosition'
             /\ PostureEvaluated(emitted')
          \/ resetWorkout ]_vars

\* C1 witness: one rep was counted and a further frame in the up window has
\* been evaluated without counting.
C1_Witness ==
    /\ reps = 1 /\ upPosition /\ elbowAngle = 185
    /\ PostureEvaluated(emitted) /\ ~RepCounted(emitted)

\* C2: a frame that ends in the Down phase leaves repCount as it was, a frame
\* that takes the phase from Down to Up adds exactly one, and a frame that
\* stays in Up adds nothing: repCount is the number of Down->Up cycles.
C2_RepCountsCycles ==
    [][ /\ (downPosition' => reps' = reps)
        /\ (downPosition /\ upPosition' => reps' = reps + 1 /\ RepCounted(emitted'))
        /\ (upPosition /\ upPosition' => reps' = reps) ]_vars

\* C2 witness: the second cycle has just been completed.
C2_Witness ==
    /\ reps = 2 /\ upPosition /\ ~downPosition
    /\ HasEvent(emitted, "rep-count", "2")

\* C3: the phase becomes Down on a frame only if, on that frame, the back is
\* straight, elbowAboveNose holds and |elbowAngle| is in (70,100); when one of
\* the three fails and the up window is not hit, the frame leaves the phase
\* as it was.
C3_DownNeedsAllThree ==
    [][ LET allThree == /\ ~highlightBack'
                        /\ FrameElbowAboveNose(poses')
                        /\ InDownWindow(elbowAngle')
        IN  /\ (downPosition' /\ ~downPosition => allThree /\ PostureEvaluated(emitted'))
            /\ (~allThree /\ ~InUpWindow(elbowAngle') /\ PostureEvaluated(emitted')
                  => UNCHANGED <<upPosition, downPosition>>) ]_vars

\* C3 witness: a frame with a negative elbow angle of 90 degrees, a straight
\* back and the elbow above the nose has put the phase to Down.
C3_Witness ==
    /\ downPosition /\ ~upPosition /\ elbowAngle = -90 /\ ~highlightBack
    /\ FrameElbowAboveNose(poses) /\ PostureEvaluated(emitted)

SpokenWarning(out) == HasEvent(out, "speech", "Keep your back straight")

TextWarning(out) == HasEvent(out, "form-feedback", "Keep your back straight")

C5_StraightFrameClearsWarning ==
    [][ HasEvent(emitted', "form-feedback", "Good posture!") => ~backWarningGiven' ]_vars

\* The camera has been stopped and no startCamera call is under way.
Stopped == p5Instance /\ ~cameraStream /\ awaitingP5 = 0 /\ awaitingMedia = 0

\* C6: once the camera is stopped, and until startCamera is called again, no
\* step queues a further detectPose tick and no step other than the user's
\* own reset changes the rep state, the posture state, the angles or the
\* session's pose log.
C6_NothingAfterStop ==
    [][ Stopped =>
          \/ /\ scheduledFrames' <= scheduledFrames
             /\ UNCHANGED <<reps, upPosition, downPosition, highlightBack,
                            backWarningGiven, elbowAngle, backAngle, workoutSession>>
          \/ resetWorkout
          \/ \E k \in ExerciseKinds : selectExercise(k) ]_vars

\* C7: at most one detection chain exists: one estimatePoses call not yet
\* resolved or one queued detectPose callback.
C7_OneDetectionChain == pendingEstimates + scheduledFrames <= 1

\* C8: a tick whose estimation returns no pose leaves the draw loop without a
\* pose, and no step taken while the draw loop has no pose (that tick, the
\* redraws that follow it) changes the phase, repCount, the posture state or
\* emits an event; only a reset of the workout does.
C8_NoPoseNoEvaluation ==
    [][ /\ (EstimateResolve(<<>>) => poses' = <<>>)
        /\ (poses' = <<>> /\ ~resetWorkout
              => /\ UNCHANGED <<reps, upPosition, downPosition, highlightBack,
                                backWarningGiven>>
                 /\ emitted' = <<>>) ]_vars

\* C8 witness: after a counted rep a tick returned no pose and queued the
\* next tick.
C8_Witness ==
    /\ poses = <<>> /\ reps = 1 /\ upPosition /\ scheduledFrames = 1 /\ emitted = <<>>

\* A keypoint that an angle needs has a score not above 0.3.
LowConfidenceAngleKeypoint(pose) ==
    \E i \in {LEFT_SHOULDER, LEFT_ELBOW, LEFT_WRIST, LEFT_HIP, LEFT_KNEE} :
        pose.keypoints[i].score <= 3

\* C9: a frame with a low-confidence angle keypoint is still run through the
\* posture evaluator and the transition rules.
C9_LowConfidenceStillEvaluated ==
    [][ Draw /\ Len(poses) > 0 /\ LowConfidenceAngleKeypoint(poses[1])
          => PostureEvaluated(emitted') ]_vars

AllLowConfidence(pose) == \A i \in 0..16 : pose.keypoints[i].score <= 3

\* C10: while the frame the controller holds has every keypoint score at or
\* below 0.3, no step that processes it (its arrival, its redraws) changes the
\* stored elbowAngle or backAngle.
C10_AllLowKeepsAngles ==
    [][ Len(poses') > 0 /\ AllLowConfidence(poses'[1]) /\ ~resetWorkout
          => UNCHANGED <<elbowAngle, backAngle>> ]_vars

\* C10 witness: the controller holds an all-low-confidence frame whose own
\* angles differ from the stored ones, which come from an earlier frame.
C10_Witness ==
    /\ Len(poses) > 0 /\ AllLowConfidence(poses[1])
    /\ elbowAngle = -90 /\ backAngle = 10 /\ downPosition
    /\ poses[1].atan2.wristElbow - poses[1].atan2.shoulderElbow = 185
    /\ scheduledFrames = 0 /\ pendingEstimates = 1

\* The step that produced out reset the workout.
WorkoutReset(out) == HasEvent(out, "ai-feedback", "Workout reset. Ready to start!")

\* The values the constructor gives the rep state, the posture state and the
\* angles.
InitialPoseState ==
    /\ reps = 0 /\ ~upPosition /\ ~downPosition
    /\ ~highlightBack /\ ~backWarningGiven
    /\ elbowAngle = 999 /\ backAngle = 0

\* C11: from any state, resetWorkout leaves the rep state, the posture state
\* and the angles at their initial values; these do not depend on the state
\* before, so a second reset in a row changes nothing.
C11_ResetRestoresInitial ==
    [][ WorkoutReset(emitted') => InitialPoseState' ]_vars

\* C11 witness: the workout has been reset while the controller holds a
\* bad-posture frame in the up window after a tick.
C11_Witness ==
    /\ WorkoutReset(emitted) /\ InitialPoseState
    /\ Len(poses) > 0 /\ poses[1] = MkPose(AllHigh, 185, 90, 1)
    /\ scheduledFrames = 1

\* The step that produced out completed startCamera and started a session.
SessionStarted(out) ==
    HasEvent(out, "ai-feedback",
             "Camera started! Position yourself in frame and begin exercising.")

\* C12: every startCamera that starts a workout session while no camera is
\* running (the first session, or one that follows a stopCamera) leaves the
\* phase Neutral and repCount 0.
C12_SessionStartsAtZero ==
    [][ SessionStarted(emitted') /\ ~cameraStream
          => reps' = 0 /\ ~upPosition' /\ ~downPosition' ]_vars

\* C13: selectExercise(kind) records kind as the selected exercise and resets
\* the workout (repCount 0, phase Neutral, posture state initial), for every
\* exercise kind; the selected exercise changes in no other way.
C13_SelectExerciseResets ==
    [][ /\ \A k \in ExerciseKinds :
             selectExercise(k) => currentExercise' = k /\ InitialPoseState'
        /\ currentExercise' # currentExercise
             => WorkoutReset(emitted') /\ InitialPoseState' ]_vars

C13_Witness ==
    /\ currentExercise = "plank"
    /\ WorkoutReset(emitted) /\ InitialPoseState
    /\ Len(poses) > 0 /\ poses[1] = MkPose(AllHigh, 185, 90, -1)

\* C14: the rep-counting rules do not depend on the selected exercise: in every
\* reachable state, evaluating the frame the draw loop holds gives the same
\* phase and the same repCount whichever exercise kind is selected, so two
\* runs fed the same frames under different kinds have the same trajectories.
C14_RepRulesIgnoreKind ==
    \A k \in ExerciseKinds :
        LET a == drawKeypoints(This, poses, workoutSession)
            b == drawKeypoints([This EXCEPT !.currentExercise = k], poses, workoutSession)
        IN  /\ a.reps = b.reps
            /\ a.upPosition = b.upPosition
            /\ a.downPosition = b.downPosition

\* A rep has just been counted while squats are selected.
C14_Witness ==
    /\ currentExercise = "squats"
    /\ RepCounted(emitted)
    /\ reps = 1 /\ upPosition /\ ~downPosition

Spoken(out) == \E i \in 1..Len(out) : out[i].sink = "speech"

\* C15: no step hands an utterance to the speech sink while the voice toggle
\* is disabled.
C15_NoSpeechWhileDisabled ==
    [][ Spoken(emitted') => voiceFeedbackEnabled /\ voiceFeedbackEnabled' ]_vars

\* With the toggle disabled a rep is counted on a bad-posture frame whose
\* warning has not been spoken yet: the count and the warning are displayed,
\* nothing is spoken.
C15_Witness ==
    /\ ~voiceFeedbackEnabled
    /\ RepCounted(emitted) /\ TextWarning(emitted)
    /\ ~backWarningGiven
    /\ ~Spoken(emitted)

\* msg is written to one of the text displays in out.
Displayed(out, msg) ==
    \E i \in 1..Len(out) :
        out[i].sink \in {"form-feedback", "ai-feedback", "rep-count"} /\ out[i].msg = msg

\* C16: every feedback event of the posture evaluator and of the repetition
\* state machine reaches a text display, whatever the voice toggle: the new
\* count of a counted rep, the "Up" information of a frame that leaves Up for
\* Down, and the text of everything that is spoken.
C16_EveryEventDisplayed ==
    [][ /\ reps' = reps + 1 => Displayed(emitted', ToString(reps'))
        /\ upPosition /\ downPosition' => Displayed(emitted', "Up")
        /\ \A i \in 1..Len(emitted') :
              emitted'[i].sink = "speech" => Displayed(emitted', emitted'[i].msg) ]_vars

\* C17: the stored backAngle lies in [0,180) after every evaluated frame (and
\* it is 0 before the first one and after a reset).
C17_BackAngleInRange == backAngle >= 0 /\ backAngle < 180

\* The step is a turn of the draw loop that evaluates the pose it holds.
EvaluatesFrame == Draw /\ Len(poses) > 0 /\ drawnCount(poses[1]) = NumKeypoints

GoodShown(out) == HasEvent(out, "form-feedback", "Good posture!")

\* C18: on every evaluated frame the back is classed straight exactly when
\* backAngle < 20 or backAngle > 160, and the Good event is emitted on exactly
\* those frames, whatever the frame before was.
C18_StraightIffGood ==
    [][ EvaluatesFrame =>
          /\ ~highlightBack' <=> (backAngle' < 20 \/ backAngle' > 160)
          /\ ~highlightBack' <=> GoodShown(emitted') ]_vars

\* A frame with backAngle above 160 evaluated right after the warning of a bent
\* back was spoken: the Good event is emitted.
C18_Witness ==
    /\ backAngle = 170 /\ ~highlightBack
    /\ GoodShown(emitted)
    /\ backWarningGiven
    /\ Len(poses) > 0 /\ poses[1].atan2.kneeHip - poses[1].atan2.shoulderHip = 170

\* C19: an evaluated frame whose elbowAngle is in (170,200) leaves the phase Up
\* whatever the phase before was (the down rule cannot fire on such a frame);
\* when the phase before was Neutral or Up, repCount is unchanged and no
\* rep-count event is emitted.
C19_UpWindowSetsUp ==
    [][ EvaluatesFrame /\ InUpWindow(elbowAngle') =>
          /\ upPosition' /\ ~downPosition'
          /\ ~downPosition => reps' = reps /\ ~RepCounted(emitted') ]_vars

\* The phase is Up after a frame in the up window, with no rep counted: the
\* phase before that frame was Neutral or Up.
C19_Witness ==
    /\ upPosition /\ ~downPosition
    /\ elbowAngle = 185 /\ reps = 0
    /\ TextWarning(emitted) /\ ~RepCounted(emitted)

\* The "Up" information is emitted in out, on any sink.
UpEmitted(out) == \E i \in 1..Len(out) : out[i].msg = "Up"

\* C21: the "Up" Info event is emitted exactly on the evaluated frames that
\* take the phase from Up to Down: on each of them, and never on a frame that
\* goes from Neutral to Down or that finds the phase already Down.
C21_UpExactlyOnLeavingUp ==
    [][ EvaluatesFrame => (UpEmitted(emitted') <=> upPosition /\ downPosition') ]_vars

\* The value the down check computes for elbowAboveNose in this state.
UsedElbowAboveNose ==
    LET cur == getCurrentPose(workoutSession)
    IN  cur # <<>> /\ cur[1].keypoints[NOSE].y > cur[1].keypoints[LEFT_ELBOW].y

\* C22: whenever the draw loop holds a frame it evaluates, the elbowAboveNose
\* the down check uses is nose.y > elbow.y of that same frame.
C22_ElbowAboveNoseOfSameFrame ==
    (p5Instance /\ Len(poses) > 0 /\ drawnCount(poses[1]) = NumKeypoints)
        => (UsedElbowAboveNose <=> FrameElbowAboveNose(poses))

\* The response res.status(status).json({ error }) to the request in slot s.
ErrorResponse(s, status, error) ==
    [slot |-> s, route |-> requests[s].route, status |-> status, error |-> error,
     body |-> {}, caller |-> requests[s].token, id |-> requests[s].id,
     origin |-> requests[s].origin, settled |-> FALSE]

\* C23: on the authenticated routes the token is verified before the handler:
\* a request without a token is answered 401 and one with an invalid token
\* 403, in both cases the request ends there and no stored data changes; a
\* request is past the middleware only with a verified token, and the
\* measurements change only in a step of such a request.
C23_HandlerOnlyAfterVerify ==
    [][ /\ \A s \in Slots :
             LET r == requests[s]
             IN  /\ (r.pc = "auth" /\ r.token.kind = "none" /\ requests'[s] # r)
                       => /\ res' = ErrorResponse(s, 401, "Access token required")
                          /\ requests'[s] = Idle
                          /\ UNCHANGED <<users, measurements>>
                 /\ (r.pc = "auth" /\ r.token.kind = "invalid" /\ requests'[s] # r)
                       => /\ res' = ErrorResponse(s, 403, "Invalid token")
                          /\ requests'[s] = Idle
                          /\ UNCHANGED <<users, measurements>>
                 /\ (requests'[s].route \in AuthRoutes
                        /\ requests'[s].pc \notin {"idle", "auth"})
                       => /\ requests'[s].token.kind = "valid"
                          /\ requests'[s].user = requests'[s].token.userId
        /\ measurements' # measurements
             => \E s \in Slots : /\ requests[s].route \in AuthRoutes
                                 /\ requests[s].token.kind = "valid"
                                 /\ requests[s].pc \notin {"idle", "auth"}
                                 /\ requests'[s] = Idle ]_vars

\* A POST without a token is answered 401 after a logged-in user has saved a
\* measurement: that measurement is still the only one.
C23_Witness ==
    /\ res.route = POST_MEASUREMENTS /\ res.caller = NoToken
    /\ res.status = 401 /\ res.error = "Access token required"
    /\ Len(measurements) = 1
    /\ \A s \in Slots : requests[s] = Idle

\* C24: while calibrating, a frame completes the calibration exactly when it
\* qualifies and nine samples have been collected since startCalibration; the
\* completion leaves isCalibrated true, isCalibrating false, the sample buffer
\* empty and scaleCmPerPixel the mean of the ten samples.  Any other frame
\* leaves the calibration running, and nothing else ends it.
C24_CalibrationOnTenthFrame ==
    [][ /\ \A f \in CalibrationPoses :
             (BmEstimateResolve(<<f>>) /\ bm.isCalibrating) =>
                 IF Qualifies(f) /\ Len(bm.calibrationFrames) = 9
                 THEN /\ bm'.isCalibrated /\ ~bm'.isCalibrating
                      /\ bm'.calibrationFrames = <<>>
                      /\ bm'.scaleCmPerPixel =
                            <<(SumSeq(bm.calibrationFrames) + Sample(f)) \div 10>>
                 ELSE /\ bm'.isCalibrating
                      /\ bm'.isCalibrated = bm.isCalibrated
                      /\ Len(bm'.calibrationFrames) =
                            Len(bm.calibrationFrames) + (IF Qualifies(f) THEN 1 ELSE 0)
        /\ (bm.isCalibrating /\ ~bm'.isCalibrating)
             => Len(bm.calibrationFrames) = 9 ]_vars

\* A calibration has just completed on six samples of 2.0 and four of 4.0
\* cm per pixel: the scale is their mean, 2.8.
C24_Witness ==
    /\ bm.isCalibrated /\ ~bm.isCalibrating
    /\ bm.calibrationFrames = <<>>
    /\ bm.scaleCmPerPixel = <<28>>
    /\ statusText = "Calibration complete"

\* Measurement i is stored and belongs to the user the token was signed for.
OwnedBy(i, token) ==
    /\ i \in 1..Len(measurements)
    /\ ~measurements[i].deleted
    /\ token.kind = "valid" /\ measurements[i].userId = token.userId

C26_UncalibratedTakeChangesNothing ==
    [][ (takeMeasurement /\ ~bm.isCalibrated)
          => /\ statusText' = "Please calibrate first"
             /\ bm' = bm
             /\ localStorage' = localStorage ]_vars

\* After a reload of the page that had taken two measurements, taking a
\* measurement without calibration was refused.
C26_Witness ==
    /\ statusText = "Please calibrate first"
    /\ ~bm.isCalibrated
    /\ Len(bm.measurementHistory) = 2
    /\ localStorage.poseai_measurements = bm.measurementHistory

\* C27: the measurement history never holds more than 10 entries and is
\* ordered newest first; it changes only by a new entry at its head, made of
\* the current measurements, and when it was full the entry that disappears
\* is the last one, the oldest.
C27_HistoryNewestFirstAtMostTen ==
    [][ LET h == bm.measurementHistory
            g == bm'.measurementHistory
        IN  /\ Len(g) <= 10
            /\ \A i \in 1..(Len(g) - 1) : g[i].timestamp > g[i + 1].timestamp
            /\ g # h
                 => /\ g[1] = [timestamp |-> clock',
                               chest |-> bm.currentMeasurements.chest,
                               leftBicep |-> bm.currentMeasurements.leftBicep,
                               rightBicep |-> bm.currentMeasurements.rightBicep]
                    /\ Tail(g) = IF Len(h) = 10 THEN SubSeq(h, 1, 9) ELSE h ]_vars

\* Twelve measurements were taken: the history holds the last ten, the first
\* two are gone.
C27_Witness ==
    /\ clock = 12
    /\ Len(bm.measurementHistory) = 10
    /\ bm.measurementHistory[1].timestamp = 12
    /\ bm.measurementHistory[10].timestamp = 3

Absent(m) == m.chest = <<>> /\ m.leftBicep = <<>> /\ m.rightBicep = <<>>

\* C28: a POST /api/measurements whose body has none of chest, leftBicep,
\* rightBicep is answered 400 'At least one measurement is required' and
\* stores nothing, and a measurement is stored only for a body that has one
\* of them; the page sends no request when its three current measurements
\* are absent or when no token is stored.
C28_NothingSavedWithoutMeasurement ==
    [][ /\ \A s \in Slots :
             LET r == requests[s]
             IN  (r.route = POST_MEASUREMENTS /\ r.pc = "handler"
                    /\ requests'[s] # r /\ Absent(r.body))
                   => /\ res' = ErrorResponse(s, 400, "At least one measurement is required")
                      /\ requests'[s] = Idle
                      /\ UNCHANGED measurements
        /\ measurements' # measurements
             => \E s \in Slots : /\ requests[s].route = POST_MEASUREMENTS
                                 /\ ~Absent(requests[s].body)
                                 /\ requests'[s] = Idle
        /\ (Absent(bm.currentMeasurements) \/ localStorage.poseai_token = NoToken)
             => \A s \in Slots :
                   requests'[s].origin = "page" => requests'[s] = requests[s] ]_vars

\* The page held no measurement and said so without sending anything; the
\* one request received, another client's POST with an empty body, was
\* answered 400 and nothing is stored.
C28_Witness ==
    /\ statusText = "No measurements to save"
    /\ received = 1
    /\ res.route = POST_MEASUREMENTS /\ res.status = 400
    /\ res.error = "At least one measurement is required"
    /\ res.origin = "other"
    /\ measurements = <<>>

\* C29: under any interleaving of register requests, a request whose email
\* belongs to a stored user when it is answered is answered 400 'User already
\* exists', and no two stored users share an email.
C29_DuplicateEmailAnswered400 ==
    [][ /\ \A s \in Slots :
             (requests[s].route = REGISTER /\ requests'[s] = Idle
                /\ UserWithEmail(requests[s].email))
               => (res'.status = 400 /\ res'.error = "User already exists")
        /\ \A u, v \in 1..Len(users') :
             users'[u].email = users'[v].email => u = v ]_vars

\* C30: in every reachable state of the workout controller upPosition and
\* downPosition are never both true; the elbow angle held is never inside
\* both the up window (170,200) and the down window 70 < |angle| < 100.
C30_NeverUpAndDown ==
    /\ ~(upPosition /\ downPosition)
    /\ ~(/\ elbowAngle > 170 /\ elbowAngle < 200
         /\ Abs(elbowAngle) > 70 /\ Abs(elbowAngle) < 100)

\* Down again after a counted repetition: the phase went Down, Up, Down.
C30_Witness == downPosition /\ ~upPosition /\ reps >= 1

\* The outcome of one more turn of the draw loop on the frame the sketch
\* holds.
Redraw == drawKeypoints(This, poses, workoutSession)

\* C31: evaluating the same frame a second time right after the first leaves
\* reps, upPosition, downPosition, highlightBack and backWarningGiven as the
\* first evaluation left them, and emits no rep-count, no "Up" and no spoken
\* warning.
C31_RedrawIdempotent ==
    [][ EvaluatesFrame =>
          /\ Redraw'.reps = reps'
          /\ Redraw'.upPosition = upPosition'
          /\ Redraw'.downPosition = downPosition'
          /\ Redraw'.highlightBack = highlightBack'
          /\ Redraw'.backWarningGiven = backWarningGiven'
          /\ ~RepCounted(Redraw'.out)
          /\ ~UpEmitted(Redraw'.out)
          /\ ~SpokenWarning(Redraw'.out) ]_vars

\* A frame was just evaluated and a repetition counted and spoken; the
\* sketch still holds that frame, and drawing it again counts nothing.
C31_Witness ==
    /\ p5Instance /\ Len(poses) > 0 /\ drawnCount(poses[1]) = NumKeypoints
    /\ RepCounted(emitted) /\ Spoken(emitted)
    /\ reps = 2
    /\ Redraw.reps = 2 /\ ~RepCounted(Redraw.out)

\* The same evaluation in the run that differs only in the voice toggle.
OtherToggle ==
    drawKeypoints([This EXCEPT !.voiceFeedbackEnabled = ~@], poses, workoutSession)

\* C32: the voice toggle affects only the speech sink: two runs that agree
\* before a frame and differ only in the toggle agree after it on reps,
\* upPosition, downPosition, highlightBack and backWarningGiven.
C32_ToggleAffectsOnlySpeech ==
    [][ EvaluatesFrame =>
          /\ OtherToggle.reps = reps'
          /\ OtherToggle.upPosition = upPosition'
          /\ OtherToggle.downPosition = downPosition'
          /\ OtherToggle.highlightBack = highlightBack'
          /\ OtherToggle.backWarningGiven = backWarningGiven' ]_vars

\* C33: at most one workout timer interval is active at any time, none is
\* active after stopCamera, and an active interval always has its handle in
\* workoutTimer.
C33_OneTimerWithHandle ==
    [][ /\ activeIntervals' <= 1
        /\ stopCamera => activeIntervals' = 0
        /\ activeIntervals' > 0 => workoutTimer' ]_vars

\* C34: in every reachable state of the body-measurement component
\* isCalibrating and isCalibrated are never both true, and a frame handled
\* while the component is calibrated leaves scaleCmPerPixel alone unless it
\* completes a calibration.
C34_NeverCalibratingAndCalibrated ==
    [][ /\ ~(bm'.isCalibrating /\ bm'.isCalibrated)
        /\ (bm.isCalibrated /\ bm'.calibrationFrames # <<>>)
             => bm'.scaleCmPerPixel = bm.scaleCmPerPixel ]_vars

====
